---- MODULE Spec2Model ----
(***************************************************************************)
(* Model of src/requires.py: OpenStackIntegrationRequires, the requires    *)
(* side of the openstack-integration interface layer.                      *)
(*                                                                         *)
(* The endpoint keeps no state of its own.  Its state is the reactive      *)
(* framework's flag store and the endpoint's list of relations, each with  *)
(* the data received from the counterpart unit.  The two handlers          *)
(* (check_ready, remove_ready) and the two properties (is_ready,           *)
(* credentials) are translated from the source; the framework's events     *)
(* (relation established / departed / broken, data changed) are the        *)
(* environment, taken from the module docstring and the specification.     *)
(*                                                                         *)
(* Python sequences are 0-based, TLA+ sequences 1-based: relations[0] of   *)
(* the source is relations[1] here.                                        *)
(***************************************************************************)
EXTENDS Naturals, Sequences, FiniteSets

VARIABLES
    relations,   \* Endpoint.relations: sequence of [unit_joined, received]
    flags,       \* the framework's flag store: set of expanded flag names
    last,        \* history: name of the step taken last
    pre,         \* history: [flags, relations] before the last step
    result,      \* history: outcome of the last handler or property call
    dispatched,  \* history: handlers run since the last framework event
    eval         \* history: what the most recent handler run saw

vars == <<relations, flags, last, pre, result, dispatched, eval>>

----------------------------------------------------------------------------
(* Bounds and value sets *)

\* Most relations the environment establishes on the endpoint at one time.
MaxRelations == 1

endpoint_name == "openstack"

\* Keys of the received data the endpoint reads.
Keys == {"credentials"}

\* Values the counterpart publishes: the empty string and a token.
Values == {"", "tok-123"}

\* Received data: a mapping defined on some of the keys.
ReceivedMaps == UNION {[K -> Values] : K \in SUBSET Keys}

EmptyMap == CHOOSE m \in ReceivedMaps : DOMAIN m = {}

----------------------------------------------------------------------------
(* Outcomes of a Python call: a value, None, or a raised exception *)

Returned(v) == [exc |-> "", none |-> FALSE, val |-> v, truth |-> FALSE]

ReturnedNone == [exc |-> "", none |-> TRUE, val |-> "", truth |-> FALSE]

ReturnedBool(b) == [exc |-> "", none |-> FALSE, val |-> "", truth |-> b]

Raised(e) == [exc |-> e, none |-> FALSE, val |-> "", truth |-> FALSE]

NoCall == ReturnedNone

\* bool(x) of a returned value: None and the empty string are falsy.
bool(r) == ~r.none /\ r.val # ""

----------------------------------------------------------------------------
(* The flag store (charms.reactive set_flag / clear_flag / toggle_flag) *)

expand_name(flag) == <<"endpoint", endpoint_name, flag>>

set_flag(f, flag) == f \cup {flag}

clear_flag(f, flag) == f \ {flag}

toggle_flag(f, flag, should_set) ==
    IF should_set THEN set_flag(f, flag) ELSE clear_flag(f, flag)

is_flag_set(f, flag) == flag \in f

joined == is_flag_set(flags, expand_name("joined"))

ready == is_flag_set(flags, expand_name("ready"))

changed == is_flag_set(flags, expand_name("changed"))

----------------------------------------------------------------------------
(* The endpoint's properties *)

\* mapping[key] on the framework's data view: None for a missing key.
getitem(m, key) == IF key \in DOMAIN m THEN Returned(m[key]) ELSE ReturnedNone

\* self.relations[0].joined_units.received; indexing an empty list raises.
_received(rels) ==
    IF Len(rels) = 0
    THEN [exc |-> "IndexError", data |-> EmptyMap]
    ELSE [exc |-> "", data |-> rels[1].received]

credentials(rels) ==
    LET r == _received(rels)
    IN  IF r.exc # "" THEN Raised(r.exc) ELSE getitem(r.data, "credentials")

is_ready(rels) ==
    LET c == credentials(rels)
    IN  IF c.exc # "" THEN Raised(c.exc) ELSE ReturnedBool(bool(c))

----------------------------------------------------------------------------
(* The handlers, as functions of the flag store and the relations *)

\* A slip: the ready flag is set whatever is_ready returns.
check_ready_always_set(f, rels) ==
    LET r == is_ready(rels)
    IN  IF r.exc # ""
        THEN f
        ELSE clear_flag(set_flag(f, expand_name("ready")), expand_name("changed"))

\* A slip: the ready flag is flipped when is_ready holds, not set.
check_ready_flip(f, rels) ==
    LET r == is_ready(rels)
        rdy == expand_name("ready")
    IN  IF r.exc # ""
        THEN f
        ELSE clear_flag(IF r.truth
                        THEN toggle_flag(f, rdy, ~is_flag_set(f, rdy))
                        ELSE clear_flag(f, rdy),
                        expand_name("changed"))

\* check_ready: the arguments of toggle_flag are evaluated first, so an
\* exception in is_ready leaves both flags as they were.
check_ready(f, rels) ==
    LET r == is_ready(rels)
    IN  IF r.exc # ""
        THEN f
        ELSE clear_flag(toggle_flag(f, expand_name("ready"), r.truth),
                        expand_name("changed"))

\* A slip: the wrong flag is cleared.
remove_ready_wrong_flag(f) == clear_flag(f, expand_name("changed"))

\* A slip: the changed flag is consumed too, as check_ready does.
remove_ready_and_changed(f) ==
    clear_flag(clear_flag(f, expand_name("ready")), expand_name("changed"))

remove_ready(f) == clear_flag(f, expand_name("ready"))

\* What a handler run saw: was there a relation, was joined set, did the
\* received data hold a non-empty credentials value.
Seen(by) ==
    [by |-> by,
     rel |-> Len(relations) > 0,
     joined |-> joined,
     creds |-> Len(relations) > 0 /\ bool(getitem(relations[1].received, "credentials"))]

Snapshot == [flags |-> flags, relations |-> relations]

----------------------------------------------------------------------------
(* Initial state: no relation, no flag set *)

Init ==
    /\ relations = <<>>
    /\ flags = {}
    /\ last = "init"
    /\ pre = [flags |-> {}, relations |-> <<>>]
    /\ result = NoCall
    /\ dispatched = {}
    /\ eval = [by |-> "none", rel |-> FALSE, joined |-> FALSE, creds |-> FALSE]

----------------------------------------------------------------------------
(* The framework's events *)

AnyJoined(rels) == \E i \in 1..Len(rels) : rels[i].unit_joined

\* The joined flag is managed by the framework: set while a unit is joined.
ManageJoined(f, rels) == toggle_flag(f, expand_name("joined"), AnyJoined(rels))

Event(name) ==
    /\ last' = name
    /\ pre' = Snapshot
    /\ result' = NoCall
    /\ dispatched' = {}
    /\ eval' = eval

RemoveAt(s, i) == [j \in 1..(Len(s) - 1) |-> IF j < i THEN s[j] ELSE s[j + 1]]

\* A relation is established and the counterpart unit joins; nothing has
\* been received yet.
RelationEstablished ==
    /\ Len(relations) < MaxRelations
    /\ relations' = Append(relations, [unit_joined |-> TRUE, received |-> EmptyMap])
    /\ flags' = ManageJoined(flags, relations')
    /\ Event("relation_established")

\* The counterpart unit departs; the relation and the data received from
\* it are still there.
RelationDeparted ==
    \E i \in 1..Len(relations) :
        /\ relations[i].unit_joined
        /\ relations' = [relations EXCEPT ![i].unit_joined = FALSE]
        /\ flags' = ManageJoined(flags, relations')
        /\ Event("relation_departed")

\* The relation is broken and removed from the endpoint.
RelationBroken ==
    \E i \in 1..Len(relations) :
        /\ relations' = RemoveAt(relations, i)
        /\ flags' = ManageJoined(flags, relations')
        /\ Event("relation_broken")

\* The joined counterpart publishes different data; the framework sets the
\* changed flag.
DataChanged ==
    \E i \in 1..Len(relations), m \in ReceivedMaps :
        /\ relations[i].unit_joined
        /\ m # relations[i].received
        /\ relations' = [relations EXCEPT ![i].received = m]
        /\ flags' = set_flag(flags, expand_name("changed"))
        /\ Event("data_changed")

----------------------------------------------------------------------------
(* The endpoint's handlers and property reads *)

\* @when('endpoint.{endpoint_name}.changed')
CheckReady ==
    /\ changed
    /\ flags' = check_ready(flags, relations)
    /\ result' = (LET r == is_ready(relations)
                  IN  IF r.exc # "" THEN r ELSE ReturnedNone)
    /\ last' = "check_ready"
    /\ pre' = Snapshot
    /\ dispatched' = dispatched \cup {"check_ready"}
    /\ eval' = IF is_ready(relations).exc # "" THEN eval ELSE Seen("check_ready")
    /\ UNCHANGED relations

\* @when_not('endpoint.{endpoint_name}.joined')
RemoveReady ==
    /\ ~joined
    /\ flags' = remove_ready(flags)
    /\ result' = ReturnedNone
    /\ last' = "remove_ready"
    /\ pre' = Snapshot
    /\ dispatched' = dispatched \cup {"remove_ready"}
    /\ eval' = Seen("remove_ready")
    /\ UNCHANGED relations

\* The charm reads endpoint.is_ready.
ReadIsReady ==
    /\ result' = is_ready(relations)
    /\ last' = "is_ready"
    /\ pre' = Snapshot
    /\ UNCHANGED <<relations, flags, dispatched, eval>>

\* The charm reads endpoint.credentials.
ReadCredentials ==
    /\ result' = credentials(relations)
    /\ last' = "credentials"
    /\ pre' = Snapshot
    /\ UNCHANGED <<relations, flags, dispatched, eval>>

Next ==
    \/ RelationEstablished
    \/ RelationDeparted
    \/ RelationBroken
    \/ DataChanged
    \/ CheckReady
    \/ RemoveReady
    \/ ReadIsReady
    \/ ReadCredentials

\* A framework event, as opposed to a step of the endpoint or of the charm.
Environment ==
    \/ RelationEstablished
    \/ RelationDeparted
    \/ RelationBroken
    \/ DataChanged

Spec == Init /\ [][Next]_vars

\* Serialized dispatch: an enabled handler is eventually run.
FairSpec == Spec /\ WF_vars(CheckReady) /\ WF_vars(RemoveReady)

----------------------------------------------------------------------------
(* Vocabulary of the properties *)

PreFlag(name) == is_flag_set(pre.flags, expand_name(name))

HasRelation == Len(relations) > 0

HasKey == HasRelation /\ "credentials" \in DOMAIN relations[1].received

\* A relation exists and its received credentials value is non-empty.
CredentialsPresent == HasKey /\ relations[1].received["credentials"] # ""

\* Every enabled handler has run since the last framework event: changed
\* has been consumed and, while not joined, remove_ready has run.
Quiescent == ~changed /\ (~joined => "remove_ready" \in dispatched)

----------------------------------------------------------------------------
(* C1: in every relation state is_ready returns true iff a relation exists
   and its received credentials value is non-empty, and it returns false,
   without failing, when no relation exists. *)
C1_IsReadyTotal ==
    last = "is_ready" =>
        /\ result.exc = ""
        /\ result.truth = CredentialsPresent

(* C2: the ready flag is set iff at the most recent evaluation of readiness
   a relation existed, the joined flag was set and the received data held a
   non-empty credentials value; check_ready run while joined is clear does
   not set ready. *)
C2_ReadyIffJoinedAndCredentials ==
    ready <=> (eval.rel /\ eval.joined /\ eval.creds)

(* C3: whenever joined is clear and every enabled handler has run, ready is
   clear, in whichever order the handlers ran: unjoined and ready is never
   a quiescent state. *)
C3_UnjoinedQuiescentNotReady ==
    (~joined /\ Quiescent) => ~ready

(* C4: check_ready always succeeds, leaves the ready flag equal to the
   value of is_ready (false when no relation exists) and leaves the changed
   flag cleared. *)
C4_CheckReadySetsReady ==
    last = "check_ready" =>
        /\ result.exc = ""
        /\ ready <=> CredentialsPresent
        /\ ~changed

(* C5: after remove_ready the ready flag is clear, whatever it was before
   and whatever the received data still holds. *)
C5_RemoveReadyClears ==
    last = "remove_ready" => ~ready

\* remove_ready has revoked a set ready flag while the stale received data
\* still held a non-empty credentials value.
C5_Witness ==
    /\ last = "remove_ready"
    /\ PreFlag("ready")
    /\ CredentialsPresent

(* C6: check_ready is idempotent: run twice in a row on unchanged relations
   it leaves the flags as one run leaves them. *)
C6_CheckReadyIdempotent ==
    check_ready(check_ready(flags, relations), relations)
        = check_ready(flags, relations)

\* check_ready has just run and set ready: a second run starts from a state
\* the first one changed.
C6_Witness ==
    /\ last = "check_ready"
    /\ ~PreFlag("ready")
    /\ PreFlag("changed")
    /\ ready
    /\ ~changed

(* C7: credentials is total: it returns the value stored at key credentials
   of the sole relation's received data when present, and an empty or absent
   value, without raising, when no relation exists or the key is absent. *)
C7_CredentialsTotal ==
    last = "credentials" =>
        /\ result.exc = ""
        /\ HasKey => (~result.none /\ result.val = relations[1].received["credentials"])
        /\ ~HasKey => (result.none \/ result.val = "")

(* C8: no operation of the endpoint sets the changed flag or modifies the
   joined flag: check_ready leaves joined as it was, remove_ready leaves
   joined and changed as they were, and the two property reads leave all
   flags and the relation data as they were. *)
C8_Frame ==
    /\ last \in {"check_ready", "remove_ready", "is_ready", "credentials"} =>
        /\ joined <=> PreFlag("joined")
        /\ changed => PreFlag("changed")
        /\ relations = pre.relations
    /\ last = "remove_ready" => (changed <=> PreFlag("changed"))
    /\ last \in {"is_ready", "credentials"} => flags = pre.flags

\* remove_ready has cleared ready while the changed flag was set, and the
\* changed flag is still set.
C8_Witness ==
    /\ last = "remove_ready"
    /\ PreFlag("ready")
    /\ PreFlag("changed")
    /\ changed

(* C9: from the initial state (not joined, not ready) the ready flag goes
   from clear to set only by a check_ready step whose is_ready evaluation
   returned true; a relation-established event alone leads to joined and
   not ready, and no framework event and no remove_ready step sets ready. *)
C9_ReadyOnlyByCheckReady ==
    /\ last = "init" => (~joined /\ ~ready)
    /\ (~PreFlag("ready") /\ ready) =>
        /\ last = "check_ready"
        /\ is_ready(pre.relations) = ReturnedBool(TRUE)
    /\ (last = "relation_established" /\ ~PreFlag("ready")) => (joined /\ ~ready)

\* check_ready has turned a clear ready flag into a set one.
C9_Witness ==
    /\ last = "check_ready"
    /\ ~PreFlag("ready")
    /\ ready
    /\ joined

(* C10: under weakly fair, serialized dispatch every setting of the changed
   flag is eventually consumed: unless framework events keep arriving, the
   system comes to rest with the changed flag cleared. *)
C10_ChangedConsumed == ([]<><<Environment>>_vars) \/ <>[](~changed)

====
